---------------------------- MODULE Spec2Model ----------------------------
(***************************************************************************)
(* A model of notebooks/6_Policy_Learning_1.py: policy learning with a     *)
(* binary treatment.  The script is a sequence of notebook cells; each     *)
(* cell that a property is about is an action, and the fitted library      *)
(* models (LassoCV, CausalForestDML, PolicyTree) are nondeterministic      *)
(* choices of their outputs.                                               *)
(*                                                                         *)
(* Floating-point numbers are modelled as exact extended rationals         *)
(* <<n, d>>: d > 0 is the rational n/d in lowest terms, <<0, 0>> is NaN,   *)
(* <<1, 0>> is +inf and <<-1, 0>> is -inf (rounding is not modelled).      *)
(***************************************************************************)
EXTENDS Integers, Sequences, FiniteSets, TLC

VARIABLES
    pc,         \* the source line of the statement about to run
    y_eval,     \* extr_val_sd argument: outcomes of the evaluation units
    w_eval,     \* extr_val_sd argument: treatment indicators
    a,          \* boolean policy assignment (pi_hat == 1)
    cost,       \* the script's global `cost` (unbound before the case study)
    ret,        \* the value of the cell's last expression
    divisors,   \* the counts extr_val_sd divided the two variances by
    n_row,      \* the number of rows of `data` (n, n_row and nrow in the script)
    train,      \* the number of leading rows the PolicyTree is fit on
    y,          \* data[outcome], a Series over all rows
    w,          \* data[treatment], a Series over all rows
    Y,          \* data_test[outcome], a Series over the test split
    W,          \* data_test[treatment], a Series over the test split
    forest,     \* the fitted causal forest: residuals_ and effect(x)
    mu_hat_1,   \* predicted outcome under treatment
    mu_hat_0,   \* predicted outcome under control
    e_hat,      \* propensity estimates
    pi_hat,     \* the policy's decisions on the evaluation units (0 / 1)
    gamma_hat_1,    \* treatment-arm AIPW scores
    gamma_hat_0,    \* control-arm AIPW scores
    gamma_hat_pi,   \* the policy's AIPW scores
    C,          \* data['cost'], the cost of each row
    tau_hat,    \* the effect estimates last computed
    gamm_hat,   \* cost estimates on the test rows
    treatment_ipw,  \* IPW estimates of the (normalized) treatment value
    cost_ipw,       \* IPW estimates of the (normalized) cost
    rank_ignore_cost,   \* (-tau_hat).argsort()
    rank_ratio,         \* (-gamm_hat).argsort()
    ipw,        \* the frame of the IPW estimates and the two rank columns
    treatment_value_ignore_cost,    \* the four cost curves
    treatment_cost_ignore_cost,
    treatment_value_ratio,
    treatment_cost_ratio,
    data_train,     \* the row labels of the training split, in its order
    data_test,      \* the row labels of the test split, in its order
    fit_index,      \* the row labels of the frame the policy's model was fit on
    eval_index,     \* the row labels each value estimate was computed on
    x,              \* the covariate matrix, later the frame data[covariates]
    data,           \* the DataFrame: its column names and its columns
    covariates,     \* the list of covariate column names
    fmla_xw,        \* the regression formula: outcome and spline terms
    tau_hat_oob,    \* the forest's effect estimates for every row
    gamma_mtrx,     \* the frame of the two score columns given to PolicyTree
    gamma_hat_pi_diff,  \* the scores of the policy minus the control scores
    scores,         \* what the calls of double_robust_score returned, in order
    swapped         \* the estimates and the ranking with the arms' labels swapped

valVars == <<y_eval, w_eval, a, divisors>>

aipwVars == <<n_row, train, y, w, Y, W, forest, mu_hat_1, mu_hat_0, e_hat, pi_hat,
              gamma_hat_1, gamma_hat_0, gamma_hat_pi>>

rankVars == <<C, gamm_hat, treatment_ipw, cost_ipw, rank_ignore_cost,
              rank_ratio, ipw, treatment_value_ignore_cost,
              treatment_cost_ignore_cost, treatment_value_ratio,
              treatment_cost_ratio>>

rowVars == <<data_train, data_test, fit_index, eval_index>>

colVars == <<x, data, covariates, fmla_xw, tau_hat_oob>>

lateVars == <<gamma_mtrx, gamma_hat_pi_diff, scores, swapped>>

vars == <<pc, cost, ret, tau_hat, valVars, aipwVars, rankVars, rowVars, colVars,
          lateVars>>

\* Python's unbound name / no value yet.
None == "None"

\* The names the cost-curve cells bind are unbound before them.
NoRank ==
    /\ C = None /\ gamm_hat = None
    /\ treatment_ipw = None /\ cost_ipw = None
    /\ rank_ignore_cost = None /\ rank_ratio = None /\ ipw = None
    /\ treatment_value_ignore_cost = None /\ treatment_cost_ignore_cost = None
    /\ treatment_value_ratio = None /\ treatment_cost_ratio = None

\* The splits and the fit are not part of the cells modelled on their own.
NoRows ==
    /\ data_train = None /\ data_test = None
    /\ fit_index = None /\ eval_index = None

\* The data frame and the covariate list are not part of those cells either.
NoCols ==
    /\ x = None /\ data = None /\ covariates = None
    /\ fmla_xw = None /\ tau_hat_oob = None

\* Nor are the score frame, the difference scores and the repeated calls.
NoLate ==
    /\ gamma_mtrx = None /\ gamma_hat_pi_diff = None
    /\ scores = None /\ swapped = None

-----------------------------------------------------------------------------
(* Bounds of the model *)

\* Largest number of evaluation units handed to extr_val_sd.
MaxEval == 3
\* Outcomes are drawn from 0..MaxY.
MaxY == 2
\* Largest number of rows of `data` in the AIPW cells.
MaxUnits == 2
\* Largest number of rows of `data` in the cost-curve cells.
MaxRankRows == 4

-----------------------------------------------------------------------------
(* numpy float64 arithmetic, on extended rationals *)

Abs(k) == IF k < 0 THEN -k ELSE k

Sign(k) == IF k < 0 THEN -1 ELSE IF k > 0 THEN 1 ELSE 0

RECURSIVE GCD(_, _)
GCD(j, k) == IF k = 0 THEN Abs(j) ELSE GCD(k, j % k)

NaN == <<0, 0>>

\* The float n/d: lowest terms, positive denominator; x/0 is +-inf, 0/0 NaN.
Fl(k, d) ==
    IF d = 0 THEN <<Sign(k), 0>>
    ELSE LET g == GCD(Abs(k), Abs(d))
         IN  <<(Sign(d) * k) \div g, Abs(d) \div g>>

F(k) == <<k, 1>>

IsNaN(p) == p = NaN

IsInf(p) == p[2] = 0 /\ p[1] # 0

IsFinite(p) == p[2] # 0

FNeg(p) == <<-p[1], p[2]>>

FAdd(p, q) ==
    IF IsNaN(p) \/ IsNaN(q) THEN NaN
    ELSE IF IsInf(p) /\ IsInf(q) THEN (IF p = q THEN p ELSE NaN)
    ELSE IF IsInf(p) THEN p
    ELSE IF IsInf(q) THEN q
    ELSE Fl(p[1] * q[2] + q[1] * p[2], p[2] * q[2])

FSub(p, q) == FAdd(p, FNeg(q))

FMul(p, q) ==
    IF IsNaN(p) \/ IsNaN(q) THEN NaN
    ELSE IF IsInf(p) \/ IsInf(q)
         THEN (IF p[1] = 0 \/ q[1] = 0 THEN NaN
               ELSE <<Sign(p[1]) * Sign(q[1]), 0>>)
    ELSE Fl(p[1] * q[1], p[2] * q[2])

\* Division never raises: x/0 is +-inf, 0/0 and inf/inf are NaN.
FDiv(p, q) ==
    IF IsNaN(p) \/ IsNaN(q) THEN NaN
    ELSE IF IsInf(q) THEN (IF IsInf(p) THEN NaN ELSE F(0))
    ELSE IF q[1] = 0 THEN (IF p[1] = 0 THEN NaN ELSE <<Sign(p[1]), 0>>)
    ELSE IF IsInf(p) THEN <<Sign(p[1]) * Sign(q[1]), 0>>
    ELSE Fl(p[1] * q[2], p[2] * q[1])

\* x > y on floats; every comparison with NaN is False.
FGt(p, q) ==
    /\ ~IsNaN(p) /\ ~IsNaN(q)
    /\ LET d == FSub(p, q) IN ~IsNaN(d) /\ d[1] > 0

\* np.sqrt, kept exact: the square root of v is the tagged radicand.
FSqrt(v) == <<"sqrt", v>>

\* Python bool used as a number.
B2F(b) == IF b THEN F(1) ELSE F(0)

RECURSIVE SeqSum(_)
SeqSum(s) == IF s = <<>> THEN F(0) ELSE FAdd(s[1], SeqSum(Tail(s)))

\* The elements of s at the positions where mask is True, in order.
RECURSIVE Where(_, _)
Where(s, mask) ==
    IF s = <<>> THEN <<>>
    ELSE (IF mask[1] THEN <<s[1]>> ELSE <<>>) \o Where(Tail(s), Tail(mask))

\* np.sum of a boolean vector: the number of True entries.
CountTrue(mask) == Len(Where(mask, mask))

\* np.mean of a numpy array: sum / len, NaN (0/0) when empty.
NpMean(s) == FDiv(SeqSum(s), F(Len(s)))

\* np.mean of a pandas Series: Series.mean(), which skips NaN entries.
SeriesMean(s) ==
    LET kept == Where(s, [i \in 1..Len(s) |-> ~IsNaN(s[i])])
    IN  FDiv(SeqSum(kept), F(Len(kept)))

\* np.var of a pandas Series: Series.var(ddof = 0), NaN entries skipped.
SeriesVar(s) ==
    LET kept == Where(s, [i \in 1..Len(s) |-> ~IsNaN(s[i])])
        m    == FDiv(SeqSum(kept), F(Len(kept)))
        dev  == [i \in 1..Len(kept) |-> FMul(FSub(kept[i], m), FSub(kept[i], m))]
    IN  FDiv(SeqSum(dev), F(Len(kept)))

-----------------------------------------------------------------------------
(* extr_val_sd: the sample-mean value estimate and its standard error *)

\* c_1 = a & (w_eval == 1)
Stratum1(we, asg) == [i \in 1..Len(we) |-> asg[i] /\ we[i] = 1]

\* c_0 = np.logical_not(a) & (w_eval == 0)
Stratum0(we, asg) == [i \in 1..Len(we) |-> ~asg[i] /\ we[i] = 0]

\* The two counts the variances are divided by: np.sum(c_1), np.sum(c_0).
ExtrDivisors(we, asg) ==
    <<CountTrue(Stratum1(we, asg)), CountTrue(Stratum0(we, asg))>>

\* The cost parameter's default.
DefaultCost == F(0)

ExtrValSd(ye, we, asg, c) ==
    LET c_1    == Stratum1(we, asg)
        c_0    == Stratum0(we, asg)
        y_0    == Where(ye, c_0)
        y_1    == Where(ye, c_1)
        mean_a == NpMean([i \in 1..Len(asg) |-> B2F(asg[i])])
        mean_n == NpMean([i \in 1..Len(asg) |-> B2F(~asg[i])])
        mean_1 == FMul(SeriesMean([i \in 1..Len(y_1) |-> FSub(y_1[i], c)]), mean_a)
        mean_0 == FMul(SeriesMean(y_0), mean_n)
        val_est == FAdd(mean_1, mean_0)
        var_1  == FMul(FDiv(SeriesVar(y_1), F(CountTrue(c_1))), FMul(mean_a, mean_a))
        var_0  == FMul(FDiv(SeriesVar(y_0), F(CountTrue(c_0))), FMul(mean_n, mean_n))
    IN  <<val_est, FSqrt(FAdd(var_1, var_0))>>

-----------------------------------------------------------------------------
(* The cells that call extr_val_sd *)

\* The treatment cost of the case study.
CaseCost == Fl(3, 10)

\* The lines that call extr_val_sd (cells In[6], In[10], In[17], In[22]).
EvalCells == {201, 274, 430, 553}

\* The statement that follows each call of extr_val_sd.
AfterEval == {212, 285, 441, 562}

Floats(lo, hi) == {F(k) : k \in lo..hi}

SeqsOf(S, k) == [1..k -> S]

InitVal ==
    /\ pc \in EvalCells
    /\ \E k \in 1..MaxEval :
         /\ y_eval \in SeqsOf(Floats(0, MaxY), k)
         /\ w_eval \in SeqsOf({0, 1}, k)
         /\ a \in SeqsOf(BOOLEAN, k)
    /\ cost = IF pc = 553 THEN CaseCost ELSE None
    /\ ret = None
    /\ divisors = None
    /\ n_row = None /\ train = None /\ y = None /\ w = None /\ Y = None /\ W = None
    /\ forest = None /\ mu_hat_1 = None /\ mu_hat_0 = None /\ e_hat = None
    /\ pi_hat = None /\ gamma_hat_1 = None /\ gamma_hat_0 = None
    /\ gamma_hat_pi = None /\ tau_hat = None
    /\ NoRank /\ NoRows /\ NoCols /\ NoLate

\* In[6]: extr_val_sd(Y, W, a), the Lasso threshold policy on data_test.
ValueLasso ==
    /\ pc = 201
    /\ ret' = ExtrValSd(y_eval, w_eval, a, DefaultCost)
    /\ divisors' = ExtrDivisors(w_eval, a)
    /\ pc' = 212
    /\ UNCHANGED <<y_eval, w_eval, a, cost, tau_hat, aipwVars, rankVars, rowVars, colVars, lateVars>>

\* In[10]: extr_val_sd(y, w, a), the causal-forest threshold policy.
ValueForest ==
    /\ pc = 274
    /\ ret' = ExtrValSd(y_eval, w_eval, a, DefaultCost)
    /\ divisors' = ExtrDivisors(w_eval, a)
    /\ pc' = 285
    /\ UNCHANGED <<y_eval, w_eval, a, cost, tau_hat, aipwVars, rankVars, rowVars, colVars, lateVars>>

\* In[17]: extr_val_sd(y1, w1, a), the PolicyTree on the simulated data.
ValueTreeSim ==
    /\ pc = 430
    /\ ret' = ExtrValSd(y_eval, w_eval, a, DefaultCost)
    /\ divisors' = ExtrDivisors(w_eval, a)
    /\ pc' = 441
    /\ UNCHANGED <<y_eval, w_eval, a, cost, tau_hat, aipwVars, rankVars, rowVars, colVars, lateVars>>

\* In[22]: extr_val_sd(y_test, w_test, a), the case-study PolicyTree.
ValueCaseStudy ==
    /\ pc = 553
    /\ ret' = ExtrValSd(y_eval, w_eval, a, DefaultCost)
    /\ divisors' = ExtrDivisors(w_eval, a)
    /\ pc' = 562
    /\ UNCHANGED <<y_eval, w_eval, a, cost, tau_hat, aipwVars, rankVars, rowVars, colVars, lateVars>>

NextVal == ValueLasso \/ ValueForest \/ ValueTreeSim \/ ValueCaseStudy

SpecVal == InitVal /\ [][NextVal]_vars

-----------------------------------------------------------------------------
(* pandas Series: an index of row labels and the values at them.  A numpy
   array is a plain sequence. *)

Series(ix, vl) == [idx |-> ix, val |-> vl]

\* RangeIndex: the labels 1..k in order.
Range(k) == [i \in 1..k |-> i]

Labels(s) == {s.idx[i] : i \in 1..Len(s.idx)}

\* The value at label l, NaN where the Series has no such label.
At(s, l) ==
    IF l \in Labels(s)
    THEN s.val[CHOOSE i \in 1..Len(s.idx) : s.idx[i] = l]
    ELSE NaN

RECURSIVE SortedSeq(_)
SortedSeq(S) ==
    IF S = {} THEN <<>>
    ELSE LET m == CHOOSE x1 \in S : \A x2 \in S : x1 <= x2
         IN  <<m>> \o SortedSeq(S \ {m})

\* Series op Series: position by position when the indexes are equal, else
\* aligned on the sorted union of the labels, NaN where either side lacks one.
SerSer(Op(_, _), s1, s2) ==
    IF s1.idx = s2.idx
    THEN Series(s1.idx, [i \in 1..Len(s1.val) |-> Op(s1.val[i], s2.val[i])])
    ELSE LET ix == SortedSeq(Labels(s1) \cup Labels(s2))
         IN  Series(ix, [i \in 1..Len(ix) |-> Op(At(s1, ix[i]), At(s2, ix[i]))])

\* Series op numpy array and numpy array op Series: position by position.
SerArr(Op(_, _), s, arr) ==
    Series(s.idx, [i \in 1..Len(s.val) |-> Op(s.val[i], arr[i])])

ArrSer(Op(_, _), arr, s) ==
    Series(s.idx, [i \in 1..Len(s.val) |-> Op(arr[i], s.val[i])])

\* 1 - s
OneMinus(s) == Series(s.idx, [i \in 1..Len(s.val) |-> FSub(F(1), s.val[i])])

\* Positional slices of a sequence of rows: rows[k:] and rows[:k].
IlocFrom(rows, k) == SubSeq(rows, k + 1, Len(rows))

\* A positional slice that keeps every row, rows[:] in place of rows[:k].
IlocToWhole(rows, k) == rows

IlocTo(rows, k) == SubSeq(rows, 1, k)

\* s.iloc[k:]
Iloc(s, k) == Series(IlocFrom(s.idx, k), IlocFrom(s.val, k))

\* np.mean(g), np.std(g) / np.sqrt(len(g)); sqrt(var) / sqrt(len) is kept as
\* the exact sqrt(var / len).
ValueAndStderr(g) ==
    <<SeriesMean(g.val), FSqrt(FDiv(SeriesVar(g.val), F(Len(g.val))))>>

-----------------------------------------------------------------------------
(* AIPW scores *)

\* e_hat = w - residuals[1]: the propensity estimates the scores divide by.
EHat(forest_model, ws) == SerArr(FSub, ws, forest_model.residuals_[2])

\* y_hat = y - residuals[0]
YHat(forest_model, ys) == SerArr(FSub, ys, forest_model.residuals_[1])

\* mu_hat_1 = y_hat + (1 - e_hat) * tau_hat, one unit
Mu1(yh, eh, tau) == FAdd(yh, FMul(FSub(F(1), eh), tau))

\* mu_hat_0 = y_hat - e_hat * tau_hat, one unit
Mu0(yh, eh, tau) == FSub(yh, FMul(eh, tau))

\* gamma_hat_1 = mu_hat_1 + w / e_hat * (y - mu_hat_1), one unit
Gamma1(mu1, wv, eh, yv) == FAdd(mu1, FMul(FDiv(wv, eh), FSub(yv, mu1)))

\* gamma_hat_0 = mu_hat_0 + (1 - w) / (1 - e_hat) * (y - mu_hat_0), one unit
Gamma0(mu0, wv, eh, yv) ==
    FAdd(mu0, FMul(FDiv(FSub(F(1), wv), FSub(F(1), eh)), FSub(yv, mu0)))

\* double_robust_score(forest_model, y, w, x): (gamma_hat_1, gamma_hat_0).
\* y and w are columns of one frame, so every operand has their index.
DoubleRobustScore(forest_model, ys, ws) ==
    LET tau == forest_model.effect
        eh  == EHat(forest_model, ws).val
        yh  == YHat(forest_model, ys).val
        k   == Len(ys.val)
        mu1 == [i \in 1..k |-> Mu1(yh[i], eh[i], tau[i])]
        mu0 == [i \in 1..k |-> Mu0(yh[i], eh[i], tau[i])]
    IN  << Series(ys.idx, [i \in 1..k |-> Gamma1(mu1[i], ws.val[i], eh[i], ys.val[i])]),
           Series(ys.idx, [i \in 1..k |-> Gamma0(mu0[i], ws.val[i], eh[i], ys.val[i])]) >>

ToFloats(pi) == [i \in 1..Len(pi) |-> F(pi[i])]

OneMinusArr(pi) == [i \in 1..Len(pi) |-> F(1 - pi[i])]

\* gamma_hat_pi = pi_hat * gamma_hat_1 + (1 - pi_hat) * gamma_hat_0
PolicyScores(pi, g1, g0) ==
    SerSer(FAdd, ArrSer(FMul, ToFloats(pi), g1), ArrSer(FMul, OneMinusArr(pi), g0))

\* In[18]: gamma_hat_pi = pi_hat + gamma_hat_1 + (1 - pi_hat) * gamma_hat_0
PolicyScoresTreeSim(pi, g1, g0) ==
    SerSer(FAdd, ArrSer(FAdd, ToFloats(pi), g1), ArrSer(FMul, OneMinusArr(pi), g0))

\* pi_hat = tau_hat > 0, as 0 / 1.
Threshold(tau) == [i \in 1..Len(tau) |-> IF FGt(tau[i], F(0)) THEN 1 ELSE 0]

-----------------------------------------------------------------------------
(* The cells that compute AIPW scores and the AIPW value of a policy *)

OutcomeVals == {F(0), F(1)}

PropensityVals == {F(0), Fl(1, 2), F(1)}

EffectVals == {F(-1), F(1)}

YHatVals == {Fl(1, 2)}

\* The fitted forests on data (ys, ws): out-of-bag residuals y - y_hat and
\* w - e_hat, and the effect estimates effect(x).
Forests(ys, ws) ==
    LET k == Len(ys.val)
    IN  { [residuals_ |-> <<[i \in 1..k |-> FSub(ys.val[i], yh[i])],
                            [i \in 1..k |-> FSub(ws.val[i], eh[i])]>>,
           effect |-> tau] :
            yh \in SeqsOf(YHatVals, k), eh \in SeqsOf(PropensityVals, k),
            tau \in SeqsOf(EffectVals, k) }

InjSeqs(S, k) == {s \in SeqsOf(S, k) : \A i, j \in 1..k : i # j => s[i] # s[j]}

\* train_test_split(data, test_size = .5): ceil(n / 2) shuffled test rows.
TestIndexes(k) == InjSeqs(1..k, k - (k \div 2))

Take(s, ix) == Series(ix, [i \in 1..Len(ix) |-> At(s, ix[i])])

InitData ==
    /\ n_row \in 2..MaxUnits
    /\ y \in {Series(Range(n_row), v) : v \in SeqsOf(OutcomeVals, n_row)}
    /\ w \in {Series(Range(n_row), v) : v \in SeqsOf(OutcomeVals, n_row)}
    /\ y_eval = None /\ w_eval = None /\ a = None /\ divisors = None
    /\ ret = None /\ gamma_hat_pi = None /\ train = None
    /\ NoRank /\ NoRows /\ NoCols /\ NoLate

\* Before In[7]: the Lasso model is fit, pi_hat = tau_hat > 0 on data_test.
InitLasso ==
    /\ pc = 212
    /\ InitData
    /\ \E ix \in TestIndexes(n_row) :
         /\ Y = Take(y, ix)
         /\ W = Take(w, ix)
         /\ mu_hat_1 \in SeqsOf(OutcomeVals, Len(ix))
         /\ mu_hat_0 \in SeqsOf(OutcomeVals, Len(ix))
         /\ e_hat = [i \in 1..Len(ix) |-> Fl(1, 2)]
    /\ tau_hat = [i \in 1..Len(mu_hat_1) |-> FSub(mu_hat_1[i], mu_hat_0[i])]
    /\ pi_hat = Threshold(tau_hat)
    /\ forest = None /\ gamma_hat_1 = None /\ gamma_hat_0 = None /\ cost = None

\* Before In[11]: the forest is fit on the entire data, pi_hat = tau_hat_oob > 0;
\* Y and W are still the test split of In[7].
InitForest ==
    /\ pc = 285
    /\ InitData
    /\ \E ix \in TestIndexes(n_row) : Y = Take(y, ix) /\ W = Take(w, ix)
    /\ forest \in Forests(y, w)
    /\ pi_hat = Threshold(forest.effect)
    /\ tau_hat = None
    /\ mu_hat_1 = None /\ mu_hat_0 = None /\ e_hat = None
    /\ gamma_hat_1 = None /\ gamma_hat_0 = None /\ cost = None

\* In[12], after the forest is fit again as forest_prm_p: gamma_hat_1 is
\* still the Series In[11] left.
InitTreeSim ==
    /\ pc = 354
    /\ InitData
    /\ forest \in Forests(y, w)
    /\ gamma_hat_1 \in {Series(Range(n_row), v) : v \in SeqsOf(OutcomeVals, n_row)}
    /\ Y = None /\ W = None /\ mu_hat_1 = None /\ mu_hat_0 = None /\ e_hat = None
    /\ pi_hat = None /\ gamma_hat_0 = None /\ cost = None /\ tau_hat = None

\* In[20], after the forest is fit on the case-study data as forest_aipw.
InitCaseStudy ==
    /\ pc = 503
    /\ InitData
    /\ forest \in Forests(y, w)
    /\ cost = CaseCost
    /\ Y = None /\ W = None /\ mu_hat_1 = None /\ mu_hat_0 = None /\ e_hat = None
    /\ pi_hat = None /\ gamma_hat_1 = None /\ gamma_hat_0 = None
    /\ tau_hat = None

InitAipw == InitLasso \/ InitForest \/ InitTreeSim \/ InitCaseStudy

\* In[7]: the AIPW value of the Lasso threshold policy.  W and Y share the
\* index of data_test; mu_hat_*, e_hat and pi_hat are arrays over its rows.
AipwLasso ==
    /\ pc = 212
    /\ gamma_hat_1' = Series(Y.idx, [i \in 1..Len(Y.val) |->
                          Gamma1(mu_hat_1[i], W.val[i], e_hat[i], Y.val[i])])
    /\ gamma_hat_0' = Series(Y.idx, [i \in 1..Len(Y.val) |->
                          Gamma0(mu_hat_0[i], W.val[i], e_hat[i], Y.val[i])])
    /\ gamma_hat_pi' = PolicyScores(pi_hat, gamma_hat_1', gamma_hat_0')
    /\ ret' = ValueAndStderr(gamma_hat_pi')
    /\ pc' = 233
    /\ UNCHANGED <<rankVars, rowVars, colVars, tau_hat, cost, valVars, n_row, train, y, w, Y, W, forest,
                   mu_hat_1, mu_hat_0, e_hat, pi_hat, lateVars>>

\* In[11]: the inline forest-based AIPW scores on the entire data.  The
\* control-arm score reads the outcome from Y, the test split's Series:
\* Y - mu_hat_0 is aligned on the labels, NaN at the rows Y lacks.
AipwForest ==
    /\ pc = 285
    /\ tau_hat' = forest.effect
    /\ e_hat' = EHat(forest, w)
    /\ LET yh == YHat(forest, y).val
       IN  /\ mu_hat_1' = Series(y.idx, [i \in 1..n_row |->
                              Mu1(yh[i], e_hat'.val[i], tau_hat'[i])])
           /\ mu_hat_0' = Series(y.idx, [i \in 1..n_row |->
                              Mu0(yh[i], e_hat'.val[i], tau_hat'[i])])
    /\ gamma_hat_1' = Series(y.idx, [i \in 1..n_row |->
                          Gamma1(mu_hat_1'.val[i], w.val[i], e_hat'.val[i], y.val[i])])
    /\ LET diff == SerSer(FSub, Y, mu_hat_0')
       IN  gamma_hat_0' = Series(y.idx, [i \in 1..n_row |->
                              FAdd(mu_hat_0'.val[i],
                                   FMul(FDiv(FSub(F(1), w.val[i]),
                                             FSub(F(1), e_hat'.val[i])),
                                        At(diff, y.idx[i])))])
    /\ gamma_hat_pi' = PolicyScores(pi_hat, gamma_hat_1', gamma_hat_0')
    /\ ret' = ValueAndStderr(gamma_hat_pi')
    /\ pc' = 350
    /\ UNCHANGED <<rankVars, rowVars, colVars, cost, valVars, n_row, train, y, w, Y, W, forest, pi_hat, lateVars>>

\* In[12]: gamma_hat_0, gamma_hat_0 = double_robust_score(forest_prm_p, y, w, x)
\* binds gamma_hat_0 twice, last to the second score.
DoubleRobustSim ==
    /\ pc = 354
    /\ gamma_hat_0' = DoubleRobustScore(forest, y, w)[2]
    /\ gamma_mtrx' = [gamma_hat_0 |-> gamma_hat_0', gamma_hat_1 |-> gamma_hat_1]
    /\ pc' = 391
    /\ UNCHANGED <<rankVars, rowVars, colVars, tau_hat, cost, ret, valVars, n_row, train, y, w, Y, W, forest,
                   mu_hat_1, mu_hat_0, e_hat, pi_hat, gamma_hat_1, gamma_hat_pi,
                   gamma_hat_pi_diff, scores, swapped>>

\* In[14], In[15]: the PolicyTree is fit on the first int(n/2) rows and
\* predicts a decision for each of the others.
PolicyTreeSim ==
    /\ pc = 391
    /\ train' = n_row \div 2
    /\ pi_hat' \in SeqsOf({0, 1}, n_row - (n_row \div 2))
    /\ pc' = 441
    /\ UNCHANGED <<rankVars, rowVars, colVars, tau_hat, cost, ret, valVars, n_row, y, w, Y, W, forest, mu_hat_1,
                   mu_hat_0, e_hat, gamma_hat_1, gamma_hat_0, gamma_hat_pi, lateVars>>

\* In[18]: the AIPW value of the PolicyTree on the remaining scores.
AipwTreeSim ==
    /\ pc = 441
    /\ gamma_hat_pi' = PolicyScoresTreeSim(pi_hat, Iloc(gamma_hat_1, n_row \div 2),
                                            Iloc(gamma_hat_0, n_row \div 2))
    /\ ret' = ValueAndStderr(gamma_hat_pi')
    /\ pc' = 463
    /\ UNCHANGED <<rankVars, rowVars, colVars, tau_hat, cost, valVars, n_row, train, y, w, Y, W, forest, mu_hat_1,
                   mu_hat_0, e_hat, pi_hat, gamma_hat_1, gamma_hat_0, lateVars>>

\* In[20]: the scores of the case study, gamma_hat_1 net of the cost; the
\* PolicyTree is fit on the first int(n_row * .8) rows and predicts the rest.
DoubleRobustCase ==
    /\ pc = 503
    /\ LET g == DoubleRobustScore(forest, y, w)
       IN  /\ gamma_hat_1' = Series(g[1].idx,
                                [i \in 1..Len(g[1].val) |-> FSub(g[1].val[i], cost)])
           /\ gamma_hat_0' = g[2]
    /\ gamma_mtrx' = [gamm_hat_0 |-> gamma_hat_0', gamm_hat_1 |-> gamma_hat_1']
    /\ train' = (n_row * 8) \div 10
    /\ pi_hat' \in SeqsOf({0, 1}, n_row - train')
    /\ pc' = 562
    /\ UNCHANGED <<rankVars, rowVars, colVars, tau_hat, cost, ret, valVars, n_row, y, w, Y, W, forest, mu_hat_1,
                   mu_hat_0, e_hat, gamma_hat_pi,
                   gamma_hat_pi_diff, scores, swapped>>

\* In[23]: the AIPW value of the case-study PolicyTree.
AipwCase ==
    /\ pc = 562
    /\ gamma_hat_pi' = PolicyScores(pi_hat, Iloc(gamma_hat_1, train),
                                     Iloc(gamma_hat_0, train))
    /\ ret' = ValueAndStderr(gamma_hat_pi')
    /\ pc' = 577
    /\ UNCHANGED <<rankVars, rowVars, colVars, tau_hat, cost, valVars, n_row, train, y, w, Y, W, forest, mu_hat_1,
                   mu_hat_0, e_hat, pi_hat, gamma_hat_1, gamma_hat_0, lateVars>>

\* In[24]: the difference between the learned policy and treating no one.
\* The sample-average pair diff_estimate, diff_strerr is bound first and then
\* bound again to the AIPW pair, which is what the cell leaves:
\* gamma_hat_pi (the rows from train on) minus gamma_hat_0 (every row), two
\* Series aligned on their labels.
DiffCase ==
    /\ pc = 577
    /\ gamma_hat_pi_diff' = SerSer(FSub, gamma_hat_pi, gamma_hat_0)
    /\ ret' = ValueAndStderr(gamma_hat_pi_diff')
    /\ pc' = 597
    /\ UNCHANGED <<rankVars, rowVars, colVars, tau_hat, cost, valVars, aipwVars,
                   gamma_mtrx, scores, swapped>>

NextAipw ==
    \/ AipwLasso \/ AipwForest
    \/ DoubleRobustSim \/ PolicyTreeSim \/ AipwTreeSim
    \/ DoubleRobustCase \/ AipwCase \/ DiffCase

SpecAipw == InitAipw /\ [][NextAipw]_vars

-----------------------------------------------------------------------------
(* Topics 2: rankings and cost curves (In[32] - In[35]) *)

\* e = 0.5, the known assignment probability.
AssignProb == Fl(1, 2)

\* The draws of np.random.uniform(0, 1, 1) considered for the cost.
CostDraws == {Fl(1, 2)}

TauVals == {F(-1), F(1), F(2)}

GammVals == {F(1), F(2)}

Perms(k) == InjSeqs(1..k, k)

\* v.argsort(): the positions of v in ascending order of value (positions
\* count from 1 here).  The default sort is not stable: tied values come in
\* any order.
ArgSorts(v) ==
    {p \in Perms(Len(v)) :
        \A i, j \in 1..Len(v) : i < j => ~FGt(v[p[i]], v[p[j]])}

\* The estimates left as they are, where the ranking negates them.
NotNegated(v) == v

Negated(v) == [i \in 1..Len(v) |-> FNeg(v[i])]

\* frame.sort_values(key): the row positions in ascending order of the key
\* column (the keys here are distinct).
SortValues(keys) ==
    LET sorted == SortedSeq({keys[i] : i \in 1..Len(keys)})
    IN  [r \in 1..Len(keys) |-> CHOOSE i \in 1..Len(keys) : keys[i] = sorted[r]]

\* np.cumsum
CumSum(v) == [i \in 1..Len(v) |-> SeqSum(SubSeq(v, 1, i))]

\* np.cumsum(ipw.sort_values(key)[col]) / np.sum(ipw[col])
CostCurve(frame, key, col) ==
    LET order == SortValues(frame[key])
        vals  == [r \in 1..Len(order) |-> frame[col][order[r]]]
        total == SeqSum(frame[col])
        cum   == CumSum(vals)
    IN  Series([r \in 1..Len(order) |-> frame.idx[order[r]]],
               [r \in 1..Len(order) |-> FDiv(cum[r], total)])

\* In[32], after y, w and x are bound: the case-study data with the random
\* cost of In[31] (one draw for every treated row, 0 for the others).
InitRank ==
    /\ pc = 784
    /\ n_row \in 2..MaxRankRows
    /\ y \in {Series(Range(n_row), v) : v \in SeqsOf(OutcomeVals, n_row)}
    /\ w \in {Series(Range(n_row), v) : v \in SeqsOf(OutcomeVals, n_row)}
    /\ \E c \in CostDraws :
         C = [i \in 1..n_row |-> IF w.val[i] = F(1) THEN c ELSE F(0)]
    /\ cost = CaseCost
    /\ y_eval = None /\ w_eval = None /\ a = None /\ divisors = None
    /\ ret = None /\ train = None /\ tau_hat = None
    /\ Y = None /\ W = None /\ forest = None /\ mu_hat_1 = None
    /\ mu_hat_0 = None /\ e_hat = None /\ pi_hat = None /\ gamma_hat_1 = None
    /\ gamma_hat_0 = None /\ gamma_hat_pi = None
    /\ gamm_hat = None /\ treatment_ipw = None /\ cost_ipw = None
    /\ rank_ignore_cost = None /\ rank_ratio = None /\ ipw = None
    /\ treatment_value_ignore_cost = None /\ treatment_cost_ignore_cost = None
    /\ treatment_value_ratio = None /\ treatment_cost_ratio = None
    /\ NoRows /\ NoCols /\ NoLate

\* In[32]: the split, the IPW estimates on the test rows, and the forests'
\* effect and cost estimates for the test rows.
Estimates ==
    /\ pc = 784
    /\ train' = n_row \div 2
    /\ LET n_test == n_row \div 2
           yt == Iloc(y, train')
           wt == Iloc(w, train')
           ct == SubSeq(C, train' + 1, n_row)
           k  == Len(yt.val)
       IN  /\ treatment_ipw' = Series(yt.idx, [i \in 1..k |->
                 FMul(FMul(FDiv(F(1), F(n_test)),
                           FSub(FDiv(wt.val[i], AssignProb),
                                FDiv(FSub(F(1), wt.val[i]),
                                     FSub(F(1), AssignProb)))),
                      yt.val[i])])
           /\ cost_ipw' = Series(yt.idx, [i \in 1..k |->
                 FMul(FDiv(FMul(FDiv(F(1), F(n_test)), wt.val[i]), AssignProb),
                      ct[i])])
           /\ tau_hat' \in SeqsOf(TauVals, k)
           /\ gamm_hat' \in SeqsOf(GammVals, k)
    /\ pc' = 813
    /\ UNCHANGED <<rowVars, colVars, cost, ret, valVars, n_row, y, w, Y, W, forest, mu_hat_1,
                   mu_hat_0, e_hat, pi_hat, gamma_hat_1, gamma_hat_0,
                   gamma_hat_pi, C, rank_ignore_cost, rank_ratio, ipw,
                   treatment_value_ignore_cost, treatment_cost_ignore_cost,
                   treatment_value_ratio, treatment_cost_ratio, lateVars>>

\* In[33]: the two rankings.
Rankings ==
    /\ pc = 813
    /\ rank_ignore_cost' \in ArgSorts(Negated(tau_hat))
    /\ rank_ratio' \in ArgSorts(Negated(gamm_hat))
    /\ pc' = 821
    /\ UNCHANGED <<rowVars, colVars, cost, ret, tau_hat, valVars, aipwVars, C, gamm_hat,
                   treatment_ipw, cost_ipw, ipw, treatment_value_ignore_cost,
                   treatment_cost_ignore_cost, treatment_value_ratio,
                   treatment_cost_ratio, lateVars>>

\* In[34]: the frame of the IPW estimates, the rankings assigned to it row
\* by row as two more columns.
IpwFrame ==
    /\ pc = 821
    /\ ipw' = [idx |-> treatment_ipw.idx,
               treatment_ipw |-> treatment_ipw.val,
               cost_ipw |-> cost_ipw.val,
               rank_ignore_cost |-> rank_ignore_cost,
               rank_ratio |-> rank_ratio]
    /\ pc' = 830
    /\ UNCHANGED <<rowVars, colVars, cost, ret, tau_hat, valVars, aipwVars, C, gamm_hat,
                   treatment_ipw, cost_ipw, rank_ignore_cost, rank_ratio,
                   treatment_value_ignore_cost, treatment_cost_ignore_cost,
                   treatment_value_ratio, treatment_cost_ratio, lateVars>>

\* In[35]: the cumulative (normalized) value and cost over each ranking.
CostCurves ==
    /\ pc = 830
    /\ treatment_value_ignore_cost' = CostCurve(ipw, "rank_ignore_cost", "treatment_ipw")
    /\ treatment_cost_ignore_cost' = CostCurve(ipw, "rank_ignore_cost", "cost_ipw")
    /\ treatment_value_ratio' = CostCurve(ipw, "rank_ratio", "treatment_ipw")
    /\ treatment_cost_ratio' = CostCurve(ipw, "rank_ratio", "cost_ipw")
    /\ pc' = 841
    /\ UNCHANGED <<rowVars, colVars, cost, ret, tau_hat, valVars, aipwVars, C, gamm_hat,
                   treatment_ipw, cost_ipw, rank_ignore_cost, rank_ratio, ipw, lateVars>>

NextRank == Estimates \/ Rankings \/ IpwFrame \/ CostCurves

SpecRank == InitRank /\ [][NextRank]_vars

\* Largest number of rows of `data` when the curves are followed for three
\* or more evaluation units.
MaxCurveRows == 5

\* In[32] as in InitRank, for data whose outcome is 1 in every row.
InitCurve ==
    /\ pc = 784
    /\ n_row \in 2..MaxCurveRows
    /\ y = Series(Range(n_row), [i \in 1..n_row |-> F(1)])
    /\ w \in {Series(Range(n_row), v) : v \in SeqsOf(OutcomeVals, n_row)}
    /\ \E c \in CostDraws :
         C = [i \in 1..n_row |-> IF w.val[i] = F(1) THEN c ELSE F(0)]
    /\ cost = CaseCost
    /\ y_eval = None /\ w_eval = None /\ a = None /\ divisors = None
    /\ ret = None /\ train = None /\ tau_hat = None
    /\ Y = None /\ W = None /\ forest = None /\ mu_hat_1 = None
    /\ mu_hat_0 = None /\ e_hat = None /\ pi_hat = None /\ gamma_hat_1 = None
    /\ gamma_hat_0 = None /\ gamma_hat_pi = None
    /\ gamm_hat = None /\ treatment_ipw = None /\ cost_ipw = None
    /\ rank_ignore_cost = None /\ rank_ratio = None /\ ipw = None
    /\ treatment_value_ignore_cost = None /\ treatment_cost_ignore_cost = None
    /\ treatment_value_ratio = None /\ treatment_cost_ratio = None
    /\ NoRows /\ NoCols /\ NoLate

SpecCurve == InitCurve /\ [][NextRank]_vars

-----------------------------------------------------------------------------
(* Sample splitting: which rows each policy is fit on and which rows its
   value estimates are computed on.  Only the row labels are followed here;
   n_row is the number of rows of the data frame in use. *)

\* Largest number of rows of a data frame in the row-label specification.
MaxRows == 5

\* The variables that hold fitted values and scores.
scoreVars == <<y, w, Y, W, forest, mu_hat_1, mu_hat_0, e_hat, pi_hat,
               gamma_hat_1, gamma_hat_0, gamma_hat_pi>>

\* The state before In[4]: the simulated data frame has n_row rows.
InitRows ==
    /\ pc = 120
    /\ n_row \in 2..MaxRows
    /\ train = None /\ cost = None /\ ret = None /\ tau_hat = None
    /\ y_eval = None /\ w_eval = None /\ a = None /\ divisors = None
    /\ y = None /\ w = None /\ Y = None /\ W = None
    /\ forest = None /\ mu_hat_1 = None /\ mu_hat_0 = None /\ e_hat = None
    /\ pi_hat = None /\ gamma_hat_1 = None /\ gamma_hat_0 = None
    /\ gamma_hat_pi = None
    /\ NoRank /\ NoRows /\ NoCols /\ NoLate

\* In[4]: data_train, data_test = train_test_split(data, test_size = .5):
\* a shuffled partition of the rows.
SplitLasso ==
    /\ pc = 120
    /\ data_test' \in TestIndexes(n_row)
    /\ data_train' \in InjSeqs((1..n_row) \ {data_test'[i] : i \in 1..Len(data_test')},
                               n_row \div 2)
    /\ pc' = 134
    /\ UNCHANGED <<fit_index, eval_index, n_row, train, cost, ret, tau_hat,
                   valVars, scoreVars, rankVars, colVars, lateVars>>

\* In[4]-In[5]: the design matrix of data_train, model_m.fit(xw_train, y_train).
FitLasso ==
    /\ pc = 134
    /\ fit_index' = data_train
    /\ pc' = 201
    /\ UNCHANGED <<data_train, data_test, eval_index, n_row, train, cost, ret,
                   tau_hat, valVars, scoreVars, rankVars, colVars, lateVars>>

\* In[6]-In[7]: Y, W are columns of data_test; extr_val_sd(Y, W, A) and the
\* AIPW scores are computed on them.
EvalLasso ==
    /\ pc = 201
    /\ eval_index' = [sample_mean |-> data_test, aipw |-> data_test]
    /\ pc' = 246
    /\ UNCHANGED <<data_train, data_test, fit_index, n_row, train, cost, ret,
                   tau_hat, valVars, scoreVars, rankVars, colVars, lateVars>>

\* In[9]: x, y, w are columns of the entire data; forest.fit(y, w, X = x).
FitForest ==
    /\ pc = 246
    /\ fit_index' = Range(n_row)
    /\ pc' = 274
    /\ UNCHANGED <<data_train, data_test, eval_index, n_row, train, cost, ret,
                   tau_hat, valVars, scoreVars, rankVars, colVars, lateVars>>

\* In[10]-In[11]: extr_val_sd(y, w, a) on the entire data; gamma_hat_pi has
\* the union of the labels of y and of Y.
EvalForest ==
    /\ pc = 274
    /\ eval_index' =
         [sample_mean |-> Range(n_row),
          aipw |-> SortedSeq((1..n_row) \cup
                             {data_test[i] : i \in 1..Len(data_test)})]
    /\ pc' = 391
    /\ UNCHANGED <<data_train, data_test, fit_index, n_row, train, cost, ret,
                   tau_hat, valVars, scoreVars, rankVars, colVars, lateVars>>

\* In[14]: train = int(n/2); PolicyTree.fit(x.iloc[:train], gamma_mtrx.iloc[:train]).
FitTreeSim ==
    /\ pc = 391
    /\ train' = n_row \div 2
    /\ fit_index' = IlocTo(Range(n_row), train')
    /\ pc' = 430
    /\ UNCHANGED <<data_train, data_test, eval_index, n_row, cost, ret,
                   tau_hat, valVars, scoreVars, rankVars, colVars, lateVars>>

\* In[17]-In[18]: y1 = data.iloc[train:][outcome]; the AIPW scores are
\* gamma_hat_1.iloc[int(n/2):] and gamma_hat_0.iloc[int(n/2):].
EvalTreeSim ==
    /\ pc = 430
    /\ eval_index' = [sample_mean |-> IlocFrom(Range(n_row), train),
                      aipw |-> IlocFrom(Range(n_row), n_row \div 2)]
    /\ pc' = 463
    /\ UNCHANGED <<data_train, data_test, fit_index, n_row, train, cost, ret,
                   tau_hat, valVars, scoreVars, rankVars, colVars, lateVars>>

\* In[19]: data = pd.read_csv(...); n_row, ncol = data.shape.
LoadCase ==
    /\ pc = 463
    /\ n_row' \in 2..MaxRows
    /\ pc' = 516
    /\ UNCHANGED <<rowVars, train, cost, ret, tau_hat, valVars, scoreVars,
                   rankVars, colVars, lateVars>>

\* In[20]: train = int(n_row * .8); PolicyTree.fit(x.iloc[:train],
\* gamma_mtrx.iloc[:train]).
FitTreeCase ==
    /\ pc = 516
    /\ train' = (n_row * 8) \div 10
    /\ fit_index' = IlocTo(Range(n_row), train')
    /\ pc' = 553
    /\ UNCHANGED <<data_train, data_test, eval_index, n_row, cost, ret,
                   tau_hat, valVars, scoreVars, rankVars, colVars, lateVars>>

\* In[22]-In[23]: y_test = y.iloc[train:]; gamma_hat_1.iloc[train:] and
\* gamma_hat_0.iloc[train:].
EvalTreeCase ==
    /\ pc = 553
    /\ eval_index' = [sample_mean |-> IlocFrom(Range(n_row), train),
                      aipw |-> IlocFrom(Range(n_row), train)]
    /\ pc' = 577
    /\ UNCHANGED <<data_train, data_test, fit_index, n_row, train, cost, ret,
                   tau_hat, valVars, scoreVars, rankVars, colVars, lateVars>>

NextRows ==
    \/ SplitLasso
    \/ FitLasso
    \/ EvalLasso
    \/ FitForest
    \/ EvalForest
    \/ FitTreeSim
    \/ EvalTreeSim
    \/ LoadCase
    \/ FitTreeCase
    \/ EvalTreeCase

SpecRows == InitRows /\ [][NextRows]_vars

-----------------------------------------------------------------------------
(* The data frame, the covariate list, and the columns the two threshold
   policies of In[5] and In[9] are computed from.  A fitted model is a
   nondeterministic choice of a rule on one of the columns it was given. *)

\* Number of rows of the simulated data frame in the column specification.
MaxColRows == 2

\* p = 4 covariates.
NumCovariates == 4

\* The values a cell of x, y or w takes.
CellVals == {F(0), F(1)}

\* outcome, treatment = "y", "w"
outcome == "y"

treatment == "w"

\* A Python slice s[i:j] of a list, for 0 <= i <= j.
PySlice(s, i, j) ==
    SubSeq(s, i + 1, IF j < Len(s) THEN j ELSE Len(s))

\* pd.DataFrame(x) with data.columns = names: one column per column of x.
DataFrame(m, names) ==
    [columns |-> names,
     col |-> [c \in {names[k] : k \in 1..Len(names)} |->
                [i \in 1..Len(m) |->
                   m[i][CHOOSE k \in 1..Len(names) : names[k] = c]]]]

\* data[name] = values: a new column at the end, or the old one replaced.
SetColumn(df, name, values) ==
    [columns |-> IF name \in DOMAIN df.col THEN df.columns
                 ELSE Append(df.columns, name),
     col |-> [c \in DOMAIN df.col \cup {name} |->
                IF c = name THEN values ELSE df.col[c]]]

\* data[names]: the frame of the named columns.
Select(df, names) ==
    [columns |-> names,
     col |-> [c \in {names[k] : k \in 1..Len(names)} |-> df.col[c]]]

\* bs_x(x_n): the term bs(covariates[x_n], df = 5) * w, kept as the pair of
\* the columns it reads.
bs_x(x_n) == <<covariates[x_n + 1], treatment>>

\* A fitted rule: the sign of an effect that switches on one column.
Rules(names) ==
    {[feature |-> names[k], sign |-> sg] : k \in 1..Len(names), sg \in {1, -1}}

\* The rule's effect estimate for row i of a frame.
Effect(rule, df, i) ==
    IF FGt(df.col[rule.feature][i], F(0)) THEN F(rule.sign) ELSE F(-rule.sign)

\* The state after the draws of In[2]: x is n by p, w and y have n entries.
InitCols ==
    /\ pc = 52
    /\ x \in SeqsOf(SeqsOf(CellVals, NumCovariates), MaxColRows)
    /\ w \in SeqsOf(CellVals, MaxColRows)
    /\ y \in SeqsOf(CellVals, MaxColRows)
    /\ data = None /\ covariates = None /\ fmla_xw = None
    /\ tau_hat_oob = None
    /\ n_row = None /\ train = None /\ cost = None /\ ret = None
    /\ tau_hat = None
    /\ y_eval = None /\ w_eval = None /\ a = None /\ divisors = None
    /\ Y = None /\ W = None
    /\ forest = None /\ mu_hat_1 = None /\ mu_hat_0 = None /\ e_hat = None
    /\ pi_hat = None /\ gamma_hat_1 = None /\ gamma_hat_0 = None
    /\ gamma_hat_pi = None
    /\ NoRank /\ NoRows /\ NoLate

\* In[2]: the data frame of x with the columns y and w added, and
\* covariates = list(data.columns)[1:5].
BuildData ==
    /\ pc = 52
    /\ data' = SetColumn(SetColumn(DataFrame(x, <<"x_1", "x_2", "x_3", "x_4">>),
                                   "y", y),
                         "w", w)
    /\ covariates' = PySlice(data'.columns, 1, 5)
    /\ pc' = 105
    /\ UNCHANGED <<x, fmla_xw, tau_hat_oob, n_row, train, cost, ret, tau_hat,
                   valVars, scoreVars, rankVars, rowVars, lateVars>>

\* In[3]: fmla_xw = "y ~ " + bs_x(0, add = False) + bs_x(1) + bs_x(2) + bs_x(3)
Formula ==
    /\ pc = 105
    /\ fmla_xw' = [lhs |-> "y", rhs |-> <<bs_x(0), bs_x(1), bs_x(2), bs_x(3)>>]
    /\ pc' = 120
    /\ UNCHANGED <<x, data, covariates, tau_hat_oob, n_row, train, cost, ret,
                   tau_hat, valVars, scoreVars, rankVars, rowVars, lateVars>>

\* In[4]-In[5]: the split, the Lasso fit on the design matrix of fmla_xw, the
\* predictions on data_test with w set to 1 and to 0, and pi_hat = tau_hat > 0.
LassoPolicy ==
    /\ pc = 120
    /\ data_test' \in TestIndexes(Len(data.col[outcome]))
    /\ data_train' \in InjSeqs(
           (1..Len(data.col[outcome])) \ {data_test'[i] : i \in 1..Len(data_test')},
           Len(data.col[outcome]) \div 2)
    /\ \E rule \in Rules([k \in 1..Len(fmla_xw.rhs) |-> fmla_xw.rhs[k][1]]) :
         /\ mu_hat_1' = [i \in 1..Len(data_test') |->
                           FMul(F(1), Effect(rule, data, data_test'[i]))]
         /\ mu_hat_0' = [i \in 1..Len(data_test') |->
                           FMul(F(0), Effect(rule, data, data_test'[i]))]
    /\ n_row' = Len(data_test')
    /\ tau_hat' = [i \in 1..n_row' |-> FSub(mu_hat_1'[i], mu_hat_0'[i])]
    /\ pi_hat' = [i \in 1..n_row' |-> FGt(tau_hat'[i], F(0))]
    /\ e_hat' = [i \in 1..n_row' |-> Fl(1, 2)]
    /\ pc' = 245
    /\ UNCHANGED <<x, data, covariates, fmla_xw, tau_hat_oob, fit_index,
                   eval_index, train, cost, ret, valVars, y, w, Y, W, forest,
                   gamma_hat_1, gamma_hat_0, gamma_hat_pi, rankVars, lateVars>>

\* In[9]: x = data[covariates], y = data[outcome], w = data[treatment]; the
\* forest is fit on them and pi_hat = forest_oob.effect(x) > 0.
ForestPolicy ==
    /\ pc = 245
    /\ x' = Select(data, covariates)
    /\ y' = Series(Range(Len(data.col[outcome])), data.col[outcome])
    /\ w' = Series(Range(Len(data.col[treatment])), data.col[treatment])
    /\ \E rule \in Rules(covariates) :
         tau_hat_oob' = [i \in 1..Len(y'.val) |-> Effect(rule, x', i)]
    /\ pi_hat' = [i \in 1..Len(tau_hat_oob') |-> FGt(tau_hat_oob'[i], F(0))]
    /\ pc' = 274
    /\ UNCHANGED <<data, covariates, fmla_xw, n_row, train, cost, ret, tau_hat,
                   valVars, Y, W, forest, mu_hat_1, mu_hat_0, e_hat,
                   gamma_hat_1, gamma_hat_0, gamma_hat_pi, rankVars, rowVars, lateVars>>

NextCols ==
    \/ BuildData
    \/ Formula
    \/ LassoPolicy
    \/ ForestPolicy

SpecCols == InitCols /\ [][NextCols]_vars

-----------------------------------------------------------------------------
(* Calls of double_robust_score on their own: the function applied to a
   fitted forest and its data, and applied again to what the first call left. *)

\* Largest number of rows of the data double_robust_score is called on.
MaxCallRows == 2

\* An execution of the body that computes e_hat in place, w -= residuals[1]:
\* the caller's w is overwritten.
DoubleRobustCallInPlace(forest_model, ys, ws) ==
    [forest_model |-> forest_model, y |-> ys, w |-> EHat(forest_model, ws),
     returned |-> DoubleRobustScore(forest_model, ys, ws)]

\* One execution of the body of double_robust_score: the objects its
\* parameters name when it returns, and the pair it returns.  Every statement
\* of the body binds a local name to a new object (residuals, tau_hat, e_hat,
\* y_hat, mu_hat_*, gamma_hat_*); none assigns in place.
DoubleRobustCall(forest_model, ys, ws) ==
    [forest_model |-> forest_model, y |-> ys, w |-> ws,
     returned |-> DoubleRobustScore(forest_model, ys, ws)]

\* The function is defined and a forest is fit on y, w (and x, which enters
\* through forest.effect); nothing has been returned yet.
InitCall ==
    /\ pc = 354
    /\ n_row \in 1..MaxCallRows
    /\ y \in {Series(Range(n_row), v) : v \in SeqsOf(OutcomeVals, n_row)}
    /\ w \in {Series(Range(n_row), v) : v \in SeqsOf(OutcomeVals, n_row)}
    /\ forest \in Forests(y, w)
    /\ scores = <<>>
    /\ gamma_mtrx = None /\ gamma_hat_pi_diff = None /\ swapped = None
    /\ train = None /\ cost = None /\ ret = None /\ tau_hat = None
    /\ y_eval = None /\ w_eval = None /\ a = None /\ divisors = None
    /\ Y = None /\ W = None
    /\ mu_hat_1 = None /\ mu_hat_0 = None /\ e_hat = None
    /\ pi_hat = None /\ gamma_hat_1 = None /\ gamma_hat_0 = None
    /\ gamma_hat_pi = None
    /\ NoRank /\ NoRows /\ NoCols

\* double_robust_score(forest, y, w, x), called on the current objects.
CallDoubleRobustScore ==
    /\ pc = 354
    /\ Len(scores) < 2
    /\ LET call == DoubleRobustCall(forest, y, w)
       IN  /\ forest' = call.forest_model
           /\ y' = call.y
           /\ w' = call.w
           /\ scores' = Append(scores, call.returned)
    /\ UNCHANGED <<pc, cost, ret, tau_hat, valVars, n_row, train, Y, W,
                   mu_hat_1, mu_hat_0, e_hat, pi_hat, gamma_hat_1, gamma_hat_0,
                   gamma_hat_pi, rankVars, rowVars, colVars, gamma_mtrx,
                   gamma_hat_pi_diff, swapped>>

NextCall == CallDoubleRobustScore

SpecCall == InitCall /\ [][NextCall]_vars

-----------------------------------------------------------------------------
(* The ranking of In[33] on its own, and the same ranking with the labels of
   treatment and control swapped (data['w'] = 1 - data['w']), which negates
   the effect estimates. *)

\* Largest number of evaluation units that are ranked.
MaxSortLen == 4

\* The effect estimates of the evaluation units, before In[33].
InitSort ==
    /\ pc = 813
    /\ \E k \in 1..MaxSortLen : tau_hat \in SeqsOf(TauVals, k)
    /\ rank_ignore_cost = None /\ swapped = None
    /\ C = None /\ gamm_hat = None
    /\ treatment_ipw = None /\ cost_ipw = None
    /\ rank_ratio = None /\ ipw = None
    /\ treatment_value_ignore_cost = None /\ treatment_cost_ignore_cost = None
    /\ treatment_value_ratio = None /\ treatment_cost_ratio = None
    /\ gamma_mtrx = None /\ gamma_hat_pi_diff = None /\ scores = None
    /\ n_row = None /\ train = None /\ cost = None /\ ret = None
    /\ y_eval = None /\ w_eval = None /\ a = None /\ divisors = None
    /\ y = None /\ w = None /\ Y = None /\ W = None
    /\ forest = None /\ mu_hat_1 = None /\ mu_hat_0 = None /\ e_hat = None
    /\ pi_hat = None /\ gamma_hat_1 = None /\ gamma_hat_0 = None
    /\ gamma_hat_pi = None
    /\ NoRows /\ NoCols

\* In[33]: rank_ignore_cost = (-tau_hat).argsort()
RankIgnoreCost ==
    /\ pc = 813
    /\ rank_ignore_cost' \in ArgSorts(Negated(tau_hat))
    /\ pc' = 814
    /\ UNCHANGED <<cost, ret, tau_hat, valVars, aipwVars, C, gamm_hat,
                   treatment_ipw, cost_ipw, rank_ratio, ipw,
                   treatment_value_ignore_cost, treatment_cost_ignore_cost,
                   treatment_value_ratio, treatment_cost_ratio, rowVars,
                   colVars, lateVars>>

\* The same cell with the labels swapped: the estimates are the negated
\* ones, and the ranking is (-tau_hat).argsort() of those.
RankSwapped ==
    /\ pc = 814
    /\ \E r \in ArgSorts(Negated(Negated(tau_hat))) :
         swapped' = [tau_hat |-> Negated(tau_hat), rank_ignore_cost |-> r]
    /\ pc' = 821
    /\ UNCHANGED <<cost, ret, tau_hat, valVars, aipwVars, rankVars, rowVars,
                   colVars, gamma_mtrx, gamma_hat_pi_diff, scores>>

NextSort ==
    \/ RankIgnoreCost
    \/ RankSwapped

SpecSort == InitSort /\ [][NextSort]_vars

-----------------------------------------------------------------------------
(* Properties of the ranking under a swap of the arms, checked under SpecSort *)

Reverse(s) == [i \in 1..Len(s) |-> s[Len(s) + 1 - i]]

Distinct(v) == \A i, j \in 1..Len(v) : i # j => v[i] # v[j]

\* C12 as stated: for every vector of effect estimates, ties included, the
\* ranking computed on the negated estimates is the exact reverse of the
\* ranking computed on the original estimates.
C12_SwapReversesRanking ==
    pc = 821 => swapped.rank_ignore_cost = Reverse(rank_ignore_cost)

\* C12 amended: for every vector of pairwise distinct effect estimates, the
\* ranking computed on the negated estimates is the exact reverse of the
\* ranking computed on the original estimates.
C12_SwapReversesDistinct ==
    (pc = 821 /\ Distinct(tau_hat)) =>
        swapped.rank_ignore_cost = Reverse(rank_ignore_cost)

\* Both rankings are computed for at least three distinct estimates.
C12_Witness ==
    /\ pc = 821
    /\ Len(tau_hat) >= 3
    /\ Distinct(tau_hat)
    /\ Len(swapped.rank_ignore_cost) = Len(tau_hat)

-----------------------------------------------------------------------------
(* Properties of double_robust_score, checked under SpecCall *)

-----------------------------------------------------------------------------
(* Properties of the covariate list, checked under SpecCols *)

\* The rows pi_hat holds a decision for, in the order of pi_hat: the rows of
\* data_test after In[5], every row after In[9].
DecidedRows == IF pc = 245 THEN data_test ELSE Range(Len(pi_hat))

AgreeOnX(i, j) ==
    \A c \in {"x_1", "x_2", "x_3", "x_4"} : data.col[c][i] = data.col[c][j]

\* C2: the policy is computed from the covariates x_1, x_2, x_3, x_4 alone,
\* the covariate list holding neither the outcome y nor the treatment w: two
\* units that agree on x_1..x_4 receive the same decision pi_hat whatever
\* their observed outcome.
C2_DecisionFromCovariatesOnly ==
    pc \in {245, 274} =>
        \A i, j \in 1..Len(pi_hat) :
            AgreeOnX(DecidedRows[i], DecidedRows[j]) => pi_hat[i] = pi_hat[j]

-----------------------------------------------------------------------------
(* Properties of the sample splitting, checked under SpecRows *)

\* The cells that follow a pipeline's value estimates: In[9] after the
\* Lasso's, In[19] and the end of In[23] after the two PolicyTrees'; In[14]
\* after the causal forest's.
AfterSplitEval == {246, 463, 577}

RowSet(rows) == {rows[i] : i \in 1..Len(rows)}

\* No row of either value estimate was passed to the policy's fit.
FitDisjointFromEval ==
    /\ RowSet(fit_index) \cap RowSet(eval_index.sample_mean) = {}
    /\ RowSet(fit_index) \cap RowSet(eval_index.aipw) = {}

\* C1 as stated: in all four pipelines (Lasso, causal forest, PolicyTree on
\* the simulated data, PolicyTree on the case-study data) the rows of every
\* policy-value estimate are disjoint from the rows passed to the policy's fit.
C1_AllPipelinesSplit ==
    pc \in AfterSplitEval \cup {391}
        => FitDisjointFromEval

\* C1 amended: the Lasso pipeline and the two PolicyTree pipelines evaluate on
\* rows disjoint from the rows passed to the policy's fit; the causal-forest
\* pipeline fits on every row of the data and evaluates on every row.
C1_SplitExceptForest ==
    /\ pc \in AfterSplitEval
         => FitDisjointFromEval
    /\ pc = 391
         => /\ RowSet(fit_index) = 1..n_row
            /\ RowSet(eval_index.sample_mean) = 1..n_row
            /\ RowSet(eval_index.aipw) = 1..n_row

\* A PolicyTree pipeline has been evaluated on a non-empty set of rows after
\* its policy was fit on a non-empty set of rows.
C1_Witness ==
    /\ pc \in {463, 577}
    /\ fit_index # <<>>
    /\ eval_index.sample_mean # <<>>
    /\ eval_index.aipw # <<>>

-----------------------------------------------------------------------------
(* Properties of extr_val_sd, checked under SpecVal *)

AllTreated == \A i \in 1..Len(a) : a[i]

TreatedOutcomes == Where(y_eval, [i \in 1..Len(w_eval) |-> w_eval[i] = 1])

\* C3: for a policy that treats every evaluation unit, the value extr_val_sd
\* returns with cost 0 is the mean outcome among the treated units
\* (w_eval == 1), whenever at least one unit is treated.
C3_TreatAllIsTreatedMean ==
    (pc \in AfterEval /\ AllTreated /\ TreatedOutcomes # <<>>)
        => ret[1] = NpMean(TreatedOutcomes)

\* C5: extr_val_sd never divides by a zero count: when a stratum (a & w == 1,
\* or not a & w == 0) is empty the division is special-cased, so every count
\* a variance was divided by is positive.
C5_NoDivisionByZeroCount ==
    pc \in AfterEval => (divisors[1] > 0 /\ divisors[2] > 0)

\* C10: in the case study (cost 0.3) the sample-average value of the learned
\* policy is extr_val_sd evaluated with cost = 0.3, i.e. the treated-and-
\* assigned outcomes are counted net of the cost of treatment.
C10_CaseStudyValueNetOfCost ==
    pc = 562 => ret = ExtrValSd(y_eval, w_eval, a, cost)

-----------------------------------------------------------------------------
(* Properties of the AIPW cells, checked under SpecAipw *)

\* The statement that follows each AIPW value estimate (In[7], In[11],
\* In[18], In[23]).
AfterAipw == {233, 350, 463, 577}

\* The scores of the evaluation units of the estimate just computed.
EvalScores(g) ==
    IF pc = 463 THEN Iloc(g, n_row \div 2).val
    ELSE IF pc = 577 THEN Iloc(g, train).val
    ELSE g.val

TreatsNoOne == \A i \in 1..Len(pi_hat) : pi_hat[i] = 0

FiniteScores(v) == \A i \in 1..Len(v) : IsFinite(v[i])

\* C4: for a policy that treats no evaluation unit, each AIPW value estimate
\* of the script (Lasso, forest, simulated PolicyTree, case study) is the
\* average of the control-arm scores gamma_hat_0 over the evaluation units
\* (stated for finite treatment-arm scores, the case the claim is about).
C4_TreatNoneIsControlMean ==
    (pc \in AfterAipw /\ TreatsNoOne /\ FiniteScores(EvalScores(gamma_hat_1)))
        => ret[1] = SeriesMean(EvalScores(gamma_hat_0))

\* C14: at every place where the script evaluates a policy with AIPW scores
\* (Lasso, forest, simulated PolicyTree, case study), the score of evaluation
\* unit i is pi_hat[i] * gamma_hat_1[i] + (1 - pi_hat[i]) * gamma_hat_0[i].
C14_PolicyScoreSelectsArm ==
    pc \in AfterAipw =>
        \A i \in 1..Len(gamma_hat_pi.val) :
            gamma_hat_pi.val[i] =
                FAdd(FMul(F(pi_hat[i]), EvalScores(gamma_hat_1)[i]),
                     FMul(F(1 - pi_hat[i]), EvalScores(gamma_hat_0)[i]))

\* C15: after the forest is fit again as forest_prm_p, both columns of the
\* gamma_mtrx given to the simulated-data PolicyTree are the scores
\* double_robust_score(forest_prm_p, y, w, x) returns: gamma_hat_1 its
\* treatment-arm score, gamma_hat_0 its control-arm score.
C15_ScoreMatrixFromCurrentFit ==
    pc = 391 =>
        /\ gamma_mtrx.gamma_hat_1 = DoubleRobustScore(forest, y, w)[1]
        /\ gamma_mtrx.gamma_hat_0 = DoubleRobustScore(forest, y, w)[2]

\* C17: the inline forest-based scores of In[11] are the scores
\* double_robust_score computes from the same forest, y and w: both arms use
\* each unit's own outcome from y, and every unit has a control-arm score.
C17_InlineScoresAreDoubleRobust ==
    pc = 350 =>
        /\ gamma_hat_1 = DoubleRobustScore(forest, y, w)[1]
        /\ gamma_hat_0 = DoubleRobustScore(forest, y, w)[2]

\* C18: the standard error of the AIPW difference estimate divides by the
\* square root of the number of evaluation units: gamma_hat_pi_diff has as
\* many entries as the evaluation split iloc[train:] has rows.
C18_DiffLengthIsEvaluationRows ==
    pc = 597 => Len(gamma_hat_pi_diff.val) = n_row - train

\* The statement that follows each computation of doubly-robust scores
\* (In[11] inline, In[12] and In[20] through double_robust_score).
AfterScores == {350, 391, 562}

\* C6: the doubly-robust scores are guarded: no score is computed with a
\* propensity estimate e_hat equal to 0 or 1 (e_hat is asserted or clipped
\* into (eps, 1 - eps) before the divisions by e_hat and 1 - e_hat).
C6_PropensityGuarded ==
    pc \in AfterScores =>
        \A i \in 1..n_row :
            /\ FGt(EHat(forest, w).val[i], F(0))
            /\ FGt(F(1), EHat(forest, w).val[i])

-----------------------------------------------------------------------------
(* Properties of the rankings and cost curves, checked under SpecRank *)

\* The estimated benefit-to-cost ratio tau_hat / gamm_hat of the test unit
\* at position i.
Ratio(i) == FDiv(tau_hat[i], gamm_hat[i])

\* C7: rank_ratio lists the evaluation units in decreasing order of the
\* estimated ratio tau_hat / gamm_hat: of two units, the one with the larger
\* ratio comes earlier.
C7_RatioRankingDecreasing ==
    pc \in {821, 830, 841} =>
        \A i, j \in 1..Len(rank_ratio) :
            FGt(Ratio(rank_ratio[i]), Ratio(rank_ratio[j])) => i < j

\* The position, among the test rows, of the unit with row label l.
PosOf(l) == CHOOSE i \in 1..Len(ipw.idx) : ipw.idx[i] = l

\* The units the walk down the 'ratio' ranking has accumulated (treated)
\* when the cost curve ends.
WalkedUnits == {PosOf(l) : l \in Labels(treatment_cost_ratio)}

\* C8: the greedy allocation stops at the first non-positive ratio (or when
\* the budget is reached): no unit with a non-positive estimated ratio is
\* among the units the walk down the ranking treats.
C8_GreedyStopsAtNonPositive ==
    pc = 841 => \A i \in WalkedUnits : FGt(Ratio(i), F(0))

\* C16: each cost curve accumulates the evaluation units in the order of its
\* ranking: the rows of the 'ignoring costs' curve come in decreasing order
\* of tau_hat, its k-th value being the normalized cumulative sum of
\* treatment_ipw over the first k of them, and the k-th row of the 'ratio'
\* curve is the unit rank_ratio names k-th (stated for pairwise distinct
\* estimates, where each ranking is unique).
C16_CurveFollowsRanking ==
    pc = 841 =>
        LET ord == treatment_value_ignore_cost.idx
        IN  /\ Distinct(tau_hat) =>
                 /\ \A r, q \in 1..Len(ord) :
                      r < q => FGt(tau_hat[PosOf(ord[r])], tau_hat[PosOf(ord[q])])
                 /\ \A r \in 1..Len(ord) :
                      treatment_value_ignore_cost.val[r] =
                          FDiv(SeqSum([q \in 1..r |->
                                         ipw.treatment_ipw[PosOf(ord[q])]]),
                               SeqSum(ipw.treatment_ipw))
            /\ Distinct(gamm_hat) =>
                 \A r \in 1..Len(rank_ratio) :
                     PosOf(treatment_value_ratio.idx[r]) = rank_ratio[r]

\* C9: with a budget that covers every unit with a positive ratio (the whole
\* walk), the units the ranking policy treats are exactly those the
\* threshold policy tau_hat > 0 treats.
C9_FullBudgetIsThreshold ==
    pc = 841 => WalkedUnits = {i \in 1..Len(tau_hat) : Threshold(tau_hat)[i] = 1}

=============================================================================
